---- MODULE Spec2Model ----
(***************************************************************************)
(* hutil/csrc/RoIAlign.h: the CPU/GPU dispatch shim of the RoIAlign        *)
(* operator.  The header is supplied commented out; the model is of the    *)
(* two entry points the comment text holds, RoIAlign_forward and           *)
(* RoIAlign_backward, as they run once the comment markers are removed.    *)
(* One build of the extension is one behaviour: WITH_CUDA is fixed by the  *)
(* preprocessor, and the host calls the entry points again and again.      *)
(***************************************************************************)
EXTENDS Integers, Sequences, FiniteSets, TLC

VARIABLES
    WITH_CUDA,  \* the preprocessor symbol of lines 5, 22, 45: defined or not
    pc,         \* position of the running call: idle, if, gpu, cpu, done, aborted
    fn,         \* the entry point that is running, or NoFn
    actuals,    \* the caller's positional arguments
    frame,      \* the parameters of the running entry point, bound by name
    calls,      \* kernel invocations of the running call, in order
    result,     \* the tensor the entry point returned, or NoValue
    error,      \* the message of the failure the call raised, or NoValue
    prev        \* summary of the caller's previous call (SpecPair only)

vars == <<WITH_CUDA, pc, fn, actuals, frame, calls, result, error, prev>>

----------------------------------------------------------------------------
\* Bounds of the model.
MaxScalar == 2      \* scalar arguments range over 1..MaxScalar

NoFn == "none"
NoValue == [none |-> TRUE]

Devices == {"cpu", "cuda"}
Scalars == 1..MaxScalar

\* at::Tensor, as far as the shim can tell tensors apart: the device its
\* type lives on and its contents (two distinguishable values).
Contents == {"x", "y"}
Tensors == [device : Devices, data : Contents]

----------------------------------------------------------------------------
\* Variant: pooled_width declared before pooled_height.
ForwardParamsTransposed ==
    <<"input", "rois", "scale_h", "scale_w",
      "pooled_width", "pooled_height", "sampling_ratio">>

\* The parameter lists, in declaration order.
ForwardParams ==
    <<"input", "rois", "scale_h", "scale_w",
      "pooled_height", "pooled_width", "sampling_ratio">>

BackwardParams ==
    <<"grad", "rois", "scale_h", "scale_w", "pooled_height", "pooled_width",
      "batch_size", "channels", "height", "width", "sampling_ratio">>

\* The scalar arguments a caller can pass after the two tensors: one per
\* remaining parameter.
ScalarArgs(params) == [1..(Len(params) - 2) -> Scalars]

\* A positional call binds the i-th actual to the i-th declared parameter.
Bind(params, a) ==
    [n \in {params[i] : i \in 1..Len(params)} |->
        a[CHOOSE i \in 1..Len(params) : params[i] = n]]

\* Variant: the device test inverted.
is_cuda_inverted(t) == t.device # "cuda"

\* t.type().is_cuda()
is_cuda(t) == t.device = "cuda"

\* Variants: the device test made on rois instead of the first tensor.
ForwardDispatchedRois(f) == f.rois
BackwardDispatchedRois(f) == f.rois

\* The tensor each entry point tests.
ForwardDispatched(f) == f.input
BackwardDispatched(f) == f.grad

\* The argument lists of the four kernel calls, as written at the call sites.
ForwardCudaArgs(f) ==
    <<f.input, f.rois, f.scale_h, f.scale_w,
      f.pooled_height, f.pooled_width, f.sampling_ratio>>

ForwardCpuArgs(f) ==
    <<f.input, f.rois, f.scale_h, f.scale_w,
      f.pooled_height, f.pooled_width, f.sampling_ratio>>

BackwardCudaArgs(f) ==
    <<f.grad, f.rois, f.scale_h, f.scale_w, f.pooled_height, f.pooled_width,
      f.batch_size, f.channels, f.height, f.width, f.sampling_ratio>>

\* Variant: height and width passed in each other's place.
BackwardCpuArgsTransposed(f) ==
    <<f.grad, f.rois, f.scale_h, f.scale_w, f.pooled_height, f.pooled_width,
      f.batch_size, f.channels, f.width, f.height, f.sampling_ratio>>

BackwardCpuArgs(f) ==
    <<f.grad, f.rois, f.scale_h, f.scale_w, f.pooled_height, f.pooled_width,
      f.batch_size, f.channels, f.height, f.width, f.sampling_ratio>>

\* The kernels are defined outside this header: a kernel call yields some
\* tensor, about which the shim knows nothing.
KernelOutputs == Tensors

\* `return kernel(args);`: the kernel runs once on args and its value is the
\* value of the entry point; control leaves the function.
ReturnKernel(kernel, args) ==
    \E r \in KernelOutputs :
        /\ calls' = Append(calls, [kernel |-> kernel, args |-> args, ret |-> r])
        /\ result' = r
        /\ pc' = "done"

\* Variant: the failure is reported but not thrown, and control goes on past
\* the if block.
AT_ERROR_NoThrow(msg) ==
    /\ error' = msg
    /\ pc' = "cpu"

\* AT_ERROR(msg) throws: control leaves the function with the message.
AT_ERROR(msg) ==
    /\ error' = msg
    /\ pc' = "aborted"

NotCompiled == "Not compiled with GPU support"

----------------------------------------------------------------------------
Init ==
    /\ WITH_CUDA \in BOOLEAN
    /\ pc = "idle"
    /\ fn = NoFn
    /\ actuals = <<>>
    /\ frame = NoValue
    /\ calls = <<>>
    /\ result = NoValue
    /\ error = NoValue
    /\ prev = NoValue

\* The host, with no call running, enters an entry point with positional
\* arguments a.
Enter(name, params, a) ==
    /\ fn' = name
    /\ actuals' = a
    /\ frame' = Bind(params, a)
    /\ pc' = "if"
    /\ calls' = <<>>
    /\ result' = NoValue
    /\ error' = NoValue
    /\ UNCHANGED <<WITH_CUDA, prev>>

CallForward ==
    /\ pc = "idle"
    /\ \E t1 \in Tensors, t2 \in Tensors, s \in ScalarArgs(ForwardParams) :
           Enter("forward", ForwardParams, <<t1, t2>> \o s)

CallBackward ==
    /\ pc = "idle"
    /\ \E t1 \in Tensors, t2 \in Tensors, s \in ScalarArgs(BackwardParams) :
           Enter("backward", BackwardParams, <<t1, t2>> \o s)

\* if (input.type().is_cuda()) {
ForwardIf ==
    /\ pc = "if" /\ fn = "forward"
    /\ pc' = IF is_cuda(ForwardDispatched(frame)) THEN "gpu" ELSE "cpu"
    /\ UNCHANGED <<WITH_CUDA, fn, actuals, frame, calls, result, error, prev>>

\* Variant: the CUDA kernel is called without `return`, so control goes on
\* to the CPU call.
ForwardCudaNoReturn ==
    /\ pc = "gpu" /\ fn = "forward" /\ WITH_CUDA
    /\ \E r \in KernelOutputs :
           calls' = Append(calls, [kernel |-> "RoIAlign_forward_cuda",
                                   args |-> ForwardCudaArgs(frame), ret |-> r])
    /\ pc' = "cpu"
    /\ UNCHANGED <<WITH_CUDA, fn, actuals, frame, result, error, prev>>

\* #ifdef WITH_CUDA: return RoIAlign_forward_cuda(...);
ForwardCuda ==
    /\ pc = "gpu" /\ fn = "forward" /\ WITH_CUDA
    /\ ReturnKernel("RoIAlign_forward_cuda", ForwardCudaArgs(frame))
    /\ UNCHANGED <<WITH_CUDA, fn, actuals, frame, error, prev>>

\* #else: AT_ERROR("Not compiled with GPU support");
ForwardNoCuda ==
    /\ pc = "gpu" /\ fn = "forward" /\ ~WITH_CUDA
    /\ AT_ERROR(NotCompiled)
    /\ UNCHANGED <<WITH_CUDA, fn, actuals, frame, calls, result, prev>>

\* return RoIAlign_forward_cpu(...);
ForwardCpu ==
    /\ pc = "cpu" /\ fn = "forward"
    /\ ReturnKernel("RoIAlign_forward_cpu", ForwardCpuArgs(frame))
    /\ UNCHANGED <<WITH_CUDA, fn, actuals, frame, error, prev>>

\* if (grad.type().is_cuda()) {
BackwardIf ==
    /\ pc = "if" /\ fn = "backward"
    /\ pc' = IF is_cuda(BackwardDispatched(frame)) THEN "gpu" ELSE "cpu"
    /\ UNCHANGED <<WITH_CUDA, fn, actuals, frame, calls, result, error, prev>>

\* Variant: the GPU branch of backward calls the CPU kernel.
BackwardCudaCallsCpu ==
    /\ pc = "gpu" /\ fn = "backward" /\ WITH_CUDA
    /\ ReturnKernel("RoIAlign_backward_cpu", BackwardCudaArgs(frame))
    /\ UNCHANGED <<WITH_CUDA, fn, actuals, frame, error, prev>>

\* #ifdef WITH_CUDA: return RoIAlign_backward_cuda(...);
BackwardCuda ==
    /\ pc = "gpu" /\ fn = "backward" /\ WITH_CUDA
    /\ ReturnKernel("RoIAlign_backward_cuda", BackwardCudaArgs(frame))
    /\ UNCHANGED <<WITH_CUDA, fn, actuals, frame, error, prev>>

\* #else: AT_ERROR("Not compiled with GPU support");
BackwardNoCuda ==
    /\ pc = "gpu" /\ fn = "backward" /\ ~WITH_CUDA
    /\ AT_ERROR(NotCompiled)
    /\ UNCHANGED <<WITH_CUDA, fn, actuals, frame, calls, result, prev>>

\* return RoIAlign_backward_cpu(...);
BackwardCpu ==
    /\ pc = "cpu" /\ fn = "backward"
    /\ ReturnKernel("RoIAlign_backward_cpu", BackwardCpuArgs(frame))
    /\ UNCHANGED <<WITH_CUDA, fn, actuals, frame, error, prev>>

\* The call is over (a tensor came back, or the failure reached the host);
\* the frame is gone and the host may call again.
Leave ==
    /\ pc \in {"done", "aborted"}
    /\ pc' = "idle"
    /\ fn' = NoFn
    /\ actuals' = <<>>
    /\ frame' = NoValue
    /\ calls' = <<>>
    /\ result' = NoValue
    /\ error' = NoValue
    /\ UNCHANGED WITH_CUDA

Finish == Leave /\ UNCHANGED prev

Next ==
    \/ CallForward
    \/ CallBackward
    \/ ForwardIf
    \/ ForwardCuda
    \/ ForwardNoCuda
    \/ ForwardCpu
    \/ BackwardIf
    \/ BackwardCuda
    \/ BackwardNoCuda
    \/ BackwardCpu
    \/ Finish

Spec == Init /\ [][Next]_vars

----------------------------------------------------------------------------
\* Two calls side by side: the host remembers what its previous call was given
\* and which way it went, and calls again.  The scalar arguments of a call
\* are all given the same value, so that the remembered call stays small.
Kernels == [i \in 1..Len(calls) |-> calls[i].kernel]

Path == [outcome |-> pc, kernels |-> Kernels]

CallForwardPair ==
    /\ pc = "idle"
    /\ \E t1 \in Tensors, t2 \in Tensors, v \in Scalars :
           Enter("forward", ForwardParams,
                 <<t1, t2>> \o [i \in 1..(Len(ForwardParams) - 2) |-> v])

CallBackwardPair ==
    /\ pc = "idle"
    /\ \E t1 \in Tensors, t2 \in Tensors, v \in Scalars :
           Enter("backward", BackwardParams,
                 <<t1, t2>> \o [i \in 1..(Len(BackwardParams) - 2) |-> v])

FinishPair ==
    /\ Leave
    /\ prev' = [fn |-> fn, actuals |-> actuals, path |-> Path]

NextPair ==
    \/ CallForwardPair
    \/ CallBackwardPair
    \/ ForwardIf
    \/ ForwardCuda
    \/ ForwardNoCuda
    \/ ForwardCpu
    \/ BackwardIf
    \/ BackwardCuda
    \/ BackwardNoCuda
    \/ BackwardCpu
    \/ FinishPair

SpecPair == Init /\ [][NextPair]_vars

----------------------------------------------------------------------------
\* Properties.

Terminal == pc \in {"done", "aborted"}

Called == {calls[i].kernel : i \in 1..Len(calls)}

\* C1: a forward call ends by calling RoIAlign_forward_cuda when input is a
\* GPU tensor and the build has WITH_CUDA, and by calling
\* RoIAlign_forward_cpu when input is not a GPU tensor, in either build.
C1_ForwardDispatch ==
    (fn = "forward" /\ Terminal) =>
        /\ (actuals[1].device = "cuda" /\ WITH_CUDA) =>
               (pc = "done" /\ "RoIAlign_forward_cuda" \in Called)
        /\ (actuals[1].device # "cuda") =>
               (pc = "done" /\ "RoIAlign_forward_cpu" \in Called)

C1_Witness ==
    /\ fn = "forward" /\ pc = "done" /\ WITH_CUDA
    /\ actuals[1].device = "cuda" /\ actuals[2].device = "cpu"
    /\ Called = {"RoIAlign_forward_cuda"}

\* C2: a backward call dispatches on grad: RoIAlign_backward_cuda for a GPU
\* grad in a build with WITH_CUDA, RoIAlign_backward_cpu for a non-GPU grad
\* in either build.
C2_BackwardDispatch ==
    (fn = "backward" /\ Terminal) =>
        /\ (actuals[1].device = "cuda" /\ WITH_CUDA) =>
               (pc = "done" /\ "RoIAlign_backward_cuda" \in Called)
        /\ (actuals[1].device # "cuda") =>
               (pc = "done" /\ "RoIAlign_backward_cpu" \in Called)

C2_Witness ==
    /\ fn = "backward" /\ pc = "done" /\ ~WITH_CUDA
    /\ actuals[1].device = "cpu" /\ actuals[2].device = "cuda"
    /\ Called = {"RoIAlign_backward_cpu"}

\* C3: a call fails if and only if the build lacks WITH_CUDA and the tensor
\* dispatched on (the first argument) is a GPU tensor; the failure is always
\* "Not compiled with GPU support", and no other call carries an error.
C3_OnlyError ==
    /\ Terminal =>
           ((pc = "aborted") <=> (~WITH_CUDA /\ actuals[1].device = "cuda"))
    /\ (pc = "aborted") => (error = "Not compiled with GPU support")
    /\ (pc # "aborted") => (error = NoValue)

C3_Witness ==
    /\ pc = "aborted" /\ fn = "forward" /\ ~WITH_CUDA
    /\ actuals[1].device = "cuda"
    /\ error = "Not compiled with GPU support"

\* C4: there are two entry points; forward takes (input, rois, scale_h,
\* scale_w, pooled_height, pooled_width, sampling_ratio) and backward takes
\* (grad, rois, scale_h, scale_w, pooled_height, pooled_width, batch_size,
\* channels, height, width, sampling_ratio), positionally in that order, and
\* each returns a tensor.
C4_Signatures ==
    /\ fn \in {NoFn, "forward", "backward"}
    /\ (fn = "forward") =>
           /\ Len(actuals) = 7
           /\ DOMAIN frame = {"input", "rois", "scale_h", "scale_w",
                              "pooled_height", "pooled_width", "sampling_ratio"}
           /\ frame.input = actuals[1]
           /\ frame.rois = actuals[2]
           /\ frame.scale_h = actuals[3]
           /\ frame.scale_w = actuals[4]
           /\ frame.pooled_height = actuals[5]
           /\ frame.pooled_width = actuals[6]
           /\ frame.sampling_ratio = actuals[7]
    /\ (fn = "backward") =>
           /\ Len(actuals) = 11
           /\ DOMAIN frame = {"grad", "rois", "scale_h", "scale_w",
                              "pooled_height", "pooled_width", "batch_size",
                              "channels", "height", "width", "sampling_ratio"}
           /\ frame.grad = actuals[1]
           /\ frame.rois = actuals[2]
           /\ frame.scale_h = actuals[3]
           /\ frame.scale_w = actuals[4]
           /\ frame.pooled_height = actuals[5]
           /\ frame.pooled_width = actuals[6]
           /\ frame.batch_size = actuals[7]
           /\ frame.channels = actuals[8]
           /\ frame.height = actuals[9]
           /\ frame.width = actuals[10]
           /\ frame.sampling_ratio = actuals[11]
    /\ (pc = "done") => (result \in Tensors)

C4_Witness ==
    /\ fn = "backward" /\ pc = "done"
    /\ \A i \in 3..10 : actuals[i] # actuals[i + 1]
    /\ actuals[1] # actuals[2]

\* C5: on a call that returns, the kernel was given exactly the caller's
\* arguments, in the caller's order (7 for forward, 11 for backward), and the
\* entry point's result is the tensor the kernel returned.
C5_PassThrough ==
    (pc = "done") =>
        /\ \A i \in 1..Len(calls) :
               /\ calls[i].args = actuals
               /\ Len(calls[i].args) = IF fn = "forward" THEN 7 ELSE 11
        /\ calls # <<>>
        /\ result = calls[Len(calls)].ret

C5_Witness ==
    /\ fn = "forward" /\ pc = "done"
    /\ \A i \in 3..6 : actuals[i] # actuals[i + 1]
    /\ actuals[1] # actuals[2]
    /\ result # actuals[1]
    /\ calls[1].args = actuals

\* C7: during a call with a GPU first tensor in a build without WITH_CUDA, no
\* kernel is ever invoked, nothing is returned, and control never reaches the
\* CPU call.
C7_AbortBeforeKernel ==
    (fn # NoFn /\ ~WITH_CUDA /\ actuals[1].device = "cuda") =>
        /\ calls = <<>>
        /\ result = NoValue
        /\ pc \in {"if", "gpu", "aborted"}

C7_Witness ==
    /\ fn = "backward" /\ pc = "aborted" /\ ~WITH_CUDA
    /\ actuals[1].device = "cuda" /\ actuals[2].device = "cpu"
    /\ calls = <<>>

\* C8: a call that returns has invoked exactly one kernel, a kernel of its own
\* pass; no call ever invokes more than one; and a build without WITH_CUDA
\* never invokes a CUDA kernel.
C8_ExactlyOneKernel ==
    /\ Len(calls) <= 1
    /\ (pc = "done") =>
           /\ Len(calls) = 1
           /\ (fn = "forward") =>
                  calls[1].kernel \in {"RoIAlign_forward_cuda", "RoIAlign_forward_cpu"}
           /\ (fn = "backward") =>
                  calls[1].kernel \in {"RoIAlign_backward_cuda", "RoIAlign_backward_cpu"}
    /\ (~WITH_CUDA) =>
           \A i \in 1..Len(calls) :
               calls[i].kernel \notin {"RoIAlign_forward_cuda", "RoIAlign_backward_cuda"}

C8_Witness ==
    /\ fn = "backward" /\ pc = "done" /\ WITH_CUDA
    /\ Len(calls) = 1 /\ calls[1].kernel = "RoIAlign_backward_cuda"

\* C9: two calls of the same entry point in the same build whose first
\* tensors are on the same device take the same path (the same kernels, or
\* the abort), whatever rois and the scalar arguments are.
C9_PathDependsOnlyOnDevice ==
    (/\ prev # NoValue
     /\ Terminal
     /\ prev.fn = fn
     /\ prev.actuals[1].device = actuals[1].device) =>
        prev.path = Path

\* ... also when rois is on another device than the first tensor: the call
\* goes the way the call with rois on the same device went.
C9_Witness ==
    /\ prev # NoValue /\ pc = "done"
    /\ prev.fn = fn
    /\ prev.actuals[1].device = actuals[1].device
    /\ prev.actuals[2].device = prev.actuals[1].device
    /\ actuals[2].device # actuals[1].device
    /\ prev.actuals[2].data # actuals[2].data
    /\ prev.actuals[3] # actuals[3]
    /\ prev.path = Path

====
